---- MODULE Spec2Model ----
(***************************************************************************)
(* State-machine model of one research request of ResearchRaven-AI:        *)
(*   app.py             research / research_stream and their                *)
(*                      generate_events transport generator                 *)
(*   research_agent.py  ResearchAgent.generate_report_stream and the stages *)
(*                      it calls (search_sources, extract_relevant_content, *)
(*                      _find_replacement_url, summarize_content)           *)
(* External collaborators (Tavily search, HTTP fetch, decoders, Gemini LLM, *)
(* sqlite) are nondeterministic: each call picks one of its outcomes.       *)
(***************************************************************************)
EXTENDS Integers, Sequences, FiniteSets, TLC

VARIABLES
    pc,               \* position of the request in app.py / research_agent.py
    query,            \* the 'query' field of the request
    keys_present,     \* GEMINI_API_KEY and TAVILY_API_KEY are both configured
    response,         \* plain (non-streamed) HTTP response of the route
    events,           \* the SSE events emitted so far by generate_events
    candidate_urls,   \* generate_report_stream: candidate_urls
    extracts,         \* generate_report_stream: extracts
    processed_count,  \* generate_report_stream: processed_count
    it,               \* position of the iterator of 'for url in candidate_urls'
    phase,            \* which loop called extract_relevant_content
    url_stack,        \* url argument of every frame of extract_relevant_content
    text,             \* len(text) in the innermost frame, before the filter
    finder_calls,     \* _find_replacement_url calls made for this candidate
    search_response,  \* _find_replacement_url: what its search returned
    replacement,      \* what the last _find_replacement_url call returned
    failure,          \* how the try block of the innermost frame failed
    filter_len,       \* len of the text given to the last relevance filter
    result,           \* (content, replaced) returned to the orchestrator
    summaries,        \* generate_report_stream: summaries
    sum_i,            \* position of the iterator of 'for ext in extracts'
    overall_prompt,   \* generate_report_stream: overall_prompt
    synth_calls,      \* number of synthesis generate_content calls issued
    report,           \* generate_events: report
    exc,              \* exception travelling to generate_events' handler
    store,            \* rows of the reports table
    append_calls,     \* number of INSERTs attempted on the reports table
    issued            \* kinds of external call issued so far in this run

vars == <<pc, query, keys_present, response, events, candidate_urls, extracts,
          processed_count, it, phase, url_stack, text, finder_calls,
          search_response, replacement, failure, filter_len, result, summaries, sum_i, overall_prompt,
          synth_calls, report, exc, store, append_calls, issued>>

----------------------------------------------------------------------------
(* Bounds and program constants *)

\* depth of nested extract_relevant_content frames the interpreter allows
\* before it raises RecursionError (sys.getrecursionlimit(), scaled down)
RecursionLimit == 2

target_sources == 3

max_results == 5

replacement_max_results == 2

MaxChars == 50000

----------------------------------------------------------------------------
(* Python values: None, a str, or a str/None nested in `nest` 2-tuples *)

PyNone == [py |-> "None", text |-> "", nest |-> 0]

Str(t) == [py |-> "str", text |-> t, nest |-> 0]

\* the value v seen as the first component of a 2-tuple (v, flag)
Pair(v) == [v EXCEPT !.nest = @ + 1]

RECURSIVE Nest(_, _)
Nest(v, n) == IF n = 0 THEN v ELSE Nest(Pair(v), n - 1)

\* variant: the test is made on a 2-tuple, which is never falsy
TruthyOfTuple(v) == TRUE

\* Python truthiness: None and '' are falsy, every 2-tuple is truthy
Truthy(v) == v.nest > 0 \/ (v.py = "str" /\ v.text /= "")

IsStr(v) == v.nest = 0 /\ v.py = "str"

Min(a, b) == IF a < b THEN a ELSE b

----------------------------------------------------------------------------
(* Inputs: what the collaborators can answer *)

Queries == {"", "X"}

\* the provider's ranked result list; a search returns a prefix of it
Ranked == <<"http://a/1", "http://b/2.pdf", "http://c/3", "http://d/4",
            "http://e/5">>

R1 == "http://r/1"

R2 == "http://r/2.pdf"

\* url.lower().endswith('.pdf')
EndsWithPdf(url) == url \in {"http://b/2.pdf", "http://r/2.pdf"}

\* line 53: failed_url.split('/')[2], the host of an absolute location
Host(url) ==
    CASE url = "http://a/1" -> "a"
      [] url = "http://b/2.pdf" -> "b"
      [] url = "http://c/3" -> "c"
      [] url = "http://d/4" -> "d"
      [] url = "http://e/5" -> "e"
      [] url \in {"http://r/1", "http://r/2.pdf"} -> "r"

\* what a narrowed search can return besides the failed location itself
Alt(url) == IF url = R1 THEN R2 ELSE R1

\* result lists of a narrowed search for failed_url, 'error' aside
NarrowedResults(failed_url) ==
    LET pool == {failed_url, Alt(failed_url)}
    IN  UNION {[1..n -> pool] : n \in 0..replacement_max_results}

HttpStatuses == {403, 404, 500}

\* lengths of the text a decoder can produce
TextLens == {0, MaxChars, MaxChars + 1}

\* outcome of requests.get + raise_for_status + the decoder of the format
FetchOutcomes ==
    {[kind |-> "http_error", status |-> s, len |-> 0] : s \in HttpStatuses}
    \cup {[kind |-> "network_error", status |-> 0, len |-> 0],
          [kind |-> "decoder_error", status |-> 200, len |-> 0]}
    \cup {[kind |-> "decoded", status |-> 200, len |-> n] : n \in TextLens}

\* response.text of a successful generate_content call
LlmTexts == {"", "t"}

LlmOutcomes == {[ok |-> FALSE, text |-> ""]}
               \cup {[ok |-> TRUE, text |-> t] : t \in LlmTexts}

----------------------------------------------------------------------------
(* Events and prompts *)

Progress(message, n, url, details) ==
    [type |-> "progress", message |-> message, n |-> n, url |-> url,
     details |-> details]

ReportEvent(r) ==
    [type |-> "report", message |-> r, n |-> 0, url |-> "", details |-> <<>>]

\* variant: the handler tags its event as one more progress event
ErrorEventAsProgress(m) ==
    [type |-> "progress", message |-> m, n |-> 0, url |-> "", details |-> <<>>]

ErrorEvent(m) ==
    [type |-> "error", message |-> m, n |-> 0, url |-> "", details |-> <<>>]

NoPrompt == [kind |-> "none", query |-> "", pairs |-> <<>>]

\* overall_prompt of the three synthesis call sites
Prompt(kind, q, pairs) == [kind |-> kind, query |-> q, pairs |-> pairs]

\* the prompt text asks to note limited / no information
NotesLimited(p) == p.kind \in {"no_sources", "no_extracts"}

NoResult == [content |-> PyNone, replaced |-> FALSE]

----------------------------------------------------------------------------
(* Initial state: a request arrives *)

Init ==
    /\ pc = "request"
    /\ query \in Queries
    /\ keys_present \in BOOLEAN
    /\ response = "none"
    /\ events = <<>>
    /\ candidate_urls = <<>>
    /\ extracts = <<>>
    /\ processed_count = 0
    /\ it = 0
    /\ phase = "none"
    /\ url_stack = <<>>
    /\ text = 0
    /\ finder_calls = <<>>
    /\ search_response = <<>>
    /\ replacement = "None"
    /\ failure = "none"
    /\ filter_len = -1
    /\ result = NoResult
    /\ summaries = <<>>
    /\ sum_i = 0
    /\ overall_prompt = NoPrompt
    /\ synth_calls = 0
    /\ report = PyNone
    /\ exc = "none"
    /\ store = <<>>
    /\ append_calls = 0
    /\ issued = {}

appVars == <<query, keys_present, response, store, append_calls>>

loopVars == <<candidate_urls, extracts, processed_count, it, phase>>

extractVars == <<url_stack, text, finder_calls, search_response,
                 replacement, failure, filter_len, result>>

tailVars == <<summaries, sum_i, overall_prompt, synth_calls, report>>

----------------------------------------------------------------------------
(* app.py: research / research_stream *)

\* variant: only an absent query is refused, an empty one is accepted
MissingQueryIsNone(q) == FALSE

\* lines 81 and 122: 'if not query' ("" stands for an empty or absent query)
MissingQuery(q) == q = ""

\* the route rejects a missing query, otherwise returns the event generator
Research ==
    /\ pc = "request"
    /\ IF MissingQuery(query)
         THEN /\ response' = "400 Missing query"
              /\ pc' = "rejected"
         ELSE /\ response' = "200 text/event-stream"
              /\ pc' = "get_agent"
    /\ UNCHANGED <<query, keys_present, store, append_calls, events, exc,
                   issued>>
    /\ UNCHANGED <<loopVars, extractVars, tailVars>>

\* generate_events: agent = get_agent(); report = None; start the stream,
\* which runs to its first yield
GetAgent ==
    /\ pc = "get_agent"
    /\ IF keys_present
         THEN /\ events' = Append(events,
                     Progress("Searching for relevant sources...", 0, "", <<>>))
              /\ pc' = "search"
              /\ exc' = exc
         ELSE /\ exc' = "GEMINI_API_KEY or TAVILY_API_KEY missing in .env file"
              /\ pc' = "app_except"
              /\ events' = events
    /\ UNCHANGED <<appVars, issued, loopVars, extractVars, tailVars>>

----------------------------------------------------------------------------
(* research_agent.py: search_sources and the extraction loops *)

\* variant: the break test uses > instead of >=
TargetExceeded(n) == n > target_sources

\* line 194: the break test of the initial loop
TargetMet(n) == n >= target_sources

\* variant: the additional loop also runs when the target is just met
NeedMoreInclusive(n) == n <= target_sources

\* line 204: the first conjunct of the test of the additional loop
NeedMore(n) == n < target_sources

\* lines 199 and 209: the source recorded for an extraction
RecordedSource(url, replaced) ==
    IF replaced THEN "Replacement for original: " \o url ELSE url

\* search_sources(query, 5), then the branch on 'not candidate_urls'
Search ==
    /\ pc = "search"
    /\ \E n \in {-1} \cup (0..max_results) :
         \* n = -1: tavily.search raised, search_sources returns []
         LET urls == IF n = -1 THEN <<>> ELSE SubSeq(Ranked, 1, n)
         IN  /\ candidate_urls' = urls
             /\ IF urls = <<>>
                  THEN /\ events' = Append(events, Progress(
                              "No sources found. Generating report with limited data...",
                              0, "", <<>>))
                       /\ pc' = "synth_no_sources"
                  ELSE /\ events' = Append(events, Progress(
                              "Sources found. Now extracting content...",
                              0, "", SubSeq(urls, 1, Min(3, Len(urls)))))
                       /\ pc' = "for_head"
    /\ issued' = issued \cup {"search"}
    /\ extracts' = <<>>
    /\ processed_count' = 0
    /\ UNCHANGED <<appVars, exc, it, phase, extractVars, tailVars>>

\* variant: the list is walked from its end
IterNextReversed(urls, k) == urls[Len(urls) - k]

\* line 193: what the list iterator hands out after k items
IterNext(urls, k) == urls[k + 1]

\* one turn of 'for url in candidate_urls' up to the call of the extractor
ForNext ==
    /\ pc = "for_head"
    /\ IF it < Len(candidate_urls)
         THEN LET url == IterNext(candidate_urls, it)
              IN  /\ it' = it + 1
                  /\ IF TargetMet(Len(extracts))
                       THEN /\ pc' = "while_head"
                            /\ UNCHANGED <<events, url_stack, phase>>
                       ELSE /\ events' = Append(events, Progress(
                                   "Extracting from source",
                                   Len(extracts) + 1, url, <<>>))
                            /\ url_stack' = <<url>>
                            /\ phase' = "initial"
                            /\ pc' = "fetch"
         ELSE /\ pc' = "while_head"
              /\ UNCHANGED <<it, events, url_stack, phase>>
    /\ UNCHANGED <<appVars, exc, issued, candidate_urls, extracts,
                   processed_count, text, finder_calls, search_response,
                   replacement, failure,
                   filter_len, result, tailVars>>

\* the test of the additional loop, and what follows the loops
WhileHead ==
    /\ pc = "while_head"
    /\ IF NeedMore(Len(extracts)) /\ processed_count < Len(candidate_urls)
         THEN LET remaining_url == candidate_urls[processed_count + 1]
              IN  /\ events' = Append(events, Progress(
                         "Trying additional source",
                         Len(extracts) + 1, remaining_url, <<>>))
                  /\ url_stack' = <<remaining_url>>
                  /\ phase' = "additional"
                  /\ pc' = "fetch"
                  /\ UNCHANGED <<summaries, sum_i>>
         ELSE /\ UNCHANGED <<url_stack, phase>>
              /\ IF extracts = <<>>
                   THEN /\ events' = Append(events, Progress(
                               "No valid content extracted. Generating report with limited information...",
                               0, "", <<>>))
                        /\ pc' = "synth_no_extracts"
                        /\ UNCHANGED <<summaries, sum_i>>
                   ELSE /\ events' = Append(events, Progress(
                               "Summarizing extracted content...", 0, "", <<>>))
                        /\ summaries' = <<>>
                        /\ sum_i' = 0
                        /\ pc' = "sum_head"
    /\ UNCHANGED <<appVars, exc, issued, candidate_urls, extracts,
                   processed_count, it, text, finder_calls,
                   search_response, replacement, failure,
                   filter_len, result, overall_prompt, synth_calls, report>>

\* variant: the location fetched last stands for the candidate
InnermostUrl(stack) == stack[Len(stack)]

\* lines 193-200: `url` is the loop variable; the recursion of the
\* extractor binds its own `url` and leaves this one alone
LoopUrl(stack) == stack[1]

\* variant: the attempt is not counted
CountAttemptNever(n) == n

\* lines 201 and 211: processed_count += 1
CountAttempt(n) == n + 1

\* 'if content:' and 'processed_count += 1' after the extractor returned
RecordExtract ==
    /\ pc = "after_extract"
    /\ LET url == LoopUrl(url_stack)
       IN  IF Truthy(result.content)
             THEN /\ extracts' = Append(extracts,
                         [url |-> RecordedSource(url, result.replaced),
                          content |-> result.content])
                  /\ events' = Append(events, Progress(
                         IF result.replaced
                           THEN "Extracted from (replacement used)"
                           ELSE "Extracted from",
                         0, url, <<>>))
             ELSE UNCHANGED <<extracts, events>>
    /\ processed_count' = CountAttempt(processed_count)
    /\ url_stack' = <<>>
    /\ text' = 0
    /\ finder_calls' = <<>>
    /\ search_response' = <<>>
    /\ replacement' = "None"
    /\ failure' = "none"
    /\ filter_len' = -1
    /\ result' = NoResult
    /\ pc' = IF phase = "initial" THEN "for_head" ELSE "while_head"
    /\ UNCHANGED <<appVars, exc, issued, candidate_urls, it, phase, tailVars>>

----------------------------------------------------------------------------
(* research_agent.py: extract_relevant_content and _find_replacement_url *)

\* variant: the text is passed on whole
TruncateNever(n) == n

\* lines 100-101: the character budget of the relevance filter
Truncate(n) == IF n > MaxChars THEN MaxChars ELSE n

\* lines 93-97: an HTML page from which both extractors got nothing raises
\* ValueError; the PDF branch has no such test
RaisesNoContent(url, n) == ~EndsWithPdf(url) /\ n = 0

\* how the try block of lines 80-105 fails for a fetch outcome ("none": not)
FailureOf(url, o) ==
    CASE o.kind = "http_error" ->
           IF o.status = 403 THEN "http_403"
           ELSE IF o.status = 404 THEN "http_404" ELSE "http_other"
      [] o.kind = "network_error" -> "network_error"
      [] o.kind = "decoder_error" -> "decoder_error"
      [] o.kind = "decoded" ->
           IF RaisesNoContent(url, o.len) THEN "empty_content" ELSE "none"

\* lines 106-127: which failures make the handler look for a replacement
\* (HTTPError only for 403 and 404, every other exception always)
SeeksReplacement(f) ==
    f \in {"http_403", "http_404", "network_error", "decoder_error",
                 "empty_content", "llm_error"}

\* what generate_report_stream receives when the frame at `depth` returns
\* (v, False): every caller frame returns (that tuple, True), lines 112, 124
Unwind(v, depth) == [content |-> Nest(v, depth), replaced |-> depth > 0]

\* requests.get, raise_for_status and the decoder in the innermost frame
Fetch ==
    /\ pc = "fetch"
    /\ \E o \in FetchOutcomes :
         LET url == url_stack[Len(url_stack)]
             raised == FailureOf(url, o)
         IN  /\ failure' = raised
             /\ IF raised = "none"
                  THEN /\ text' = o.len
                       /\ pc' = "filter"
                       /\ result' = result
                  ELSE /\ text' = text
                       /\ IF SeeksReplacement(raised)
                            THEN /\ pc' = "find_replacement"
                                 /\ result' = result
                            ELSE /\ pc' = "after_extract"
                                 /\ result' = Unwind(PyNone, Len(url_stack) - 1)
    /\ issued' = issued \cup {"fetch"}
    /\ filter_len' = -1
    /\ search_response' = <<>>
    /\ replacement' = "None"
    /\ UNCHANGED <<appVars, events, exc, loopVars, url_stack, finder_calls,
                   tailVars>>

\* lines 99-105: truncate, ask the LLM for the relevant part, return it
Filter ==
    /\ pc = "filter"
    /\ filter_len' = Truncate(text)
    /\ \E o \in LlmOutcomes :
         IF o.ok
           THEN /\ result' = Unwind(Str(o.text), Len(url_stack) - 1)
                /\ pc' = "after_extract"
                /\ failure' = failure
           ELSE /\ failure' = "llm_error"
                /\ pc' = "find_replacement"
                /\ result' = result
    /\ issued' = issued \cup {"filter"}
    /\ UNCHANGED <<appVars, events, exc, loopVars, url_stack, text,
                   finder_calls, search_response, replacement, tailVars>>

\* variant: the returned locations are taken as they come
ReplacementsUnfiltered(results, failed_url) == results

\* line 55: the returned locations that differ from the failed one
Replacements(results, failed_url) ==
    SelectSeq(results, LAMBDA u : u /= failed_url)

\* lines 51-61: the value _find_replacement_url returns for a search
\* response (<<"error">>: tavily.search raised and the handler logged it)
Returned(results, failed_url) ==
    IF results = <<"error">> \/ Replacements(results, failed_url) = <<>>
      THEN "None"
      ELSE Replacements(results, failed_url)[1]

\* the handler of lines 109-115 / 121-127 with _find_replacement_url inlined
FindReplacement ==
    /\ pc = "find_replacement"
    /\ LET failed_url == url_stack[Len(url_stack)]
       IN  /\ finder_calls' = Append(finder_calls,
                  [query |-> query, failed_url |-> failed_url,
                   search_query |-> query \o " -site:" \o Host(failed_url),
                   max_results |-> replacement_max_results])
           /\ \E results \in {<<"error">>} \cup NarrowedResults(failed_url) :
                /\ search_response' = results
                /\ replacement' = Returned(results, failed_url)
                /\ IF replacement' = "None"
                      THEN /\ result' = Unwind(PyNone, Len(url_stack) - 1)
                           /\ pc' = "after_extract"
                           /\ UNCHANGED <<url_stack, exc, text, filter_len,
                                          failure>>
                      ELSE IF Len(url_stack) <= RecursionLimit
                             THEN /\ url_stack' = Append(url_stack, replacement')
                                  /\ pc' = "fetch"
                                  /\ text' = 0
                                  /\ filter_len' = -1
                                  /\ failure' = "none"
                                  /\ UNCHANGED <<result, exc>>
                             ELSE \* the interpreter's stack is exhausted
                                  \/ /\ exc' = "maximum recursion depth exceeded"
                                     /\ pc' = "app_except"
                                     /\ UNCHANGED <<url_stack, result, text,
                                                    filter_len, failure>>
                                  \/ /\ result' = Unwind(PyNone, Len(url_stack))
                                     /\ pc' = "after_extract"
                                     /\ UNCHANGED <<url_stack, exc, text,
                                                    filter_len, failure>>
    /\ issued' = issued \cup {"replacement_search"}
    /\ UNCHANGED <<appVars, events, loopVars, tailVars>>

----------------------------------------------------------------------------
(* research_agent.py: summarizing and synthesis *)

\* line 160: summary_prompt + "\n\n" + content raises TypeError, which
\* summarize_content catches, unless content is a str
Concatenable(content) == IsStr(content)

\* variant: the loop over the summaries skips the first one
PairsSkippingFirst(sums) ==
    [i \in 1..(Len(sums) - 1) |->
        [source |-> sums[i + 1].url, summary |-> sums[i + 1].summary]]

\* lines 234-235: one Source/Summary pair per summary, in order
Pairs(sums) == [i \in 1..Len(sums) |->
                   [source |-> sums[i].url, summary |-> sums[i].summary]]

\* variant: every call site builds the prompt of line 233
PromptKindAlwaysNormal(site) == "normal"

\* which prompt the orchestrator builds at lines 184, 215 and 233
PromptKind(site) ==
    CASE site = "synth_no_sources"  -> "no_sources"
      [] site = "synth_no_extracts" -> "no_extracts"
      [] site = "synth_normal"      -> "normal"

\* one turn of 'for ext in extracts' up to the summarizer call, or line 230
SumHead ==
    /\ pc = "sum_head"
    /\ IF sum_i < Len(extracts)
         THEN /\ sum_i' = sum_i + 1
              /\ events' = Append(events, Progress(
                     "Summarizing", 0, extracts[sum_i + 1].url, <<>>))
              /\ pc' = "summarize"
         ELSE /\ sum_i' = sum_i
              /\ events' = Append(events, Progress(
                     "Generating your personalized report...", 0, "", <<>>))
              /\ pc' = "synth_normal"
    /\ UNCHANGED <<appVars, exc, issued, loopVars, extractVars, summaries,
                   overall_prompt, synth_calls, report>>

\* summarize_content(ext['content'], query) and 'if summary:'
Summarize ==
    /\ pc = "summarize"
    /\ LET ext == extracts[sum_i]
           Keep(summary) ==
               IF Truthy(summary)
                 THEN /\ summaries' = Append(summaries,
                             [url |-> ext.url, summary |-> summary.text])
                      /\ events' = Append(events, Progress(
                             "Summarized", 0, ext.url, <<>>))
                 ELSE UNCHANGED <<summaries, events>>
       IN  IF Concatenable(ext.content)
             THEN /\ issued' = issued \cup {"summarize"}
                  /\ \E o \in LlmOutcomes :
                       Keep(IF o.ok THEN Str(o.text) ELSE PyNone)
             ELSE /\ issued' = issued
                  /\ Keep(PyNone)
    /\ pc' = "sum_head"
    /\ UNCHANGED <<appVars, exc, loopVars, extractVars, sum_i, overall_prompt,
                   synth_calls, report>>

\* the synthesis call of lines 184-186, 215-217 or 233-241, and the
\* forwarding of the report event by generate_events (app.py 92-94)
Synthesize ==
    /\ pc \in {"synth_no_sources", "synth_no_extracts", "synth_normal"}
    /\ overall_prompt' = Prompt(PromptKind(pc), query,
                                IF pc = "synth_normal" THEN Pairs(summaries)
                                                       ELSE <<>>)
    /\ synth_calls' = synth_calls + 1
    /\ issued' = issued \cup {"synthesis"}
    /\ \E o \in LlmOutcomes :
         IF o.ok
           THEN /\ events' = Append(events, ReportEvent(o.text))
                /\ report' = Str(o.text)
                /\ pc' = "save"
                /\ exc' = exc
           ELSE /\ exc' = "generate_content failed"
                /\ pc' = "app_except"
                /\ UNCHANGED <<events, report>>
    /\ UNCHANGED <<appVars, loopVars, extractVars, summaries, sum_i>>

----------------------------------------------------------------------------
(* app.py: the end of generate_events *)

\* lines 96-102: 'if report:' insert the row and commit
Save ==
    /\ pc = "save"
    /\ IF Truthy(report)
         THEN /\ issued' = issued \cup {"append"}
              /\ append_calls' = append_calls + 1
              /\ \E ok \in BOOLEAN :
                   IF ok
                     THEN /\ store' = Append(store,
                                 [query |-> query, report |-> report.text,
                                  timestamp |-> "now"])
                          /\ pc' = "done"
                          /\ exc' = exc
                     ELSE /\ exc' = "sqlite3 error"
                          /\ pc' = "app_except"
                          /\ store' = store
         ELSE /\ pc' = "done"
              /\ UNCHANGED <<issued, store, append_calls, exc>>
    /\ UNCHANGED <<query, keys_present, response, events, loopVars,
                   extractVars, tailVars>>

\* lines 103-106: the handler turns any exception into an error event
AppExcept ==
    /\ pc = "app_except"
    /\ events' = Append(events, ErrorEvent(exc))
    /\ pc' = "done"
    /\ UNCHANGED <<appVars, exc, issued, loopVars, extractVars, tailVars>>

----------------------------------------------------------------------------
(* app.py line 108: the server closes the response iterable when the caller
   disconnects; close() raises GeneratorExit at the yield where
   generate_events is suspended, which 'except Exception' does not catch *)

\* the run is suspended at a yield: its last step emitted the last event
AtYield ==
    /\ events /= <<>>
    /\ LET m == events[Len(events)].message
       IN  \/ pc \in {"search", "synth_no_sources", "synth_no_extracts",
                      "summarize", "synth_normal", "save"}
           \/ pc = "fetch" /\ Len(url_stack) = 1
           \/ pc = "for_head"
                /\ m \notin {"Extracting from source", "Trying additional source"}
           \/ pc = "while_head" /\ phase = "additional"
                /\ m \notin {"Extracting from source", "Trying additional source"}
           \/ pc = "sum_head" /\ m /= "Summarizing"
           \/ pc = "done" /\ events[Len(events)].type = "error"

\* variant: the close request is ignored and the generator runs on
AfterCloseIgnored(p) == p

\* where a generator is after close(): finished, no statement runs any more
AfterClose(p) == "closed"

Close ==
    /\ response = "200 text/event-stream"
    /\ AtYield
    /\ response' = "closed"
    /\ pc' = AfterClose(pc)
    /\ UNCHANGED <<query, keys_present, store, append_calls, events, exc,
                   issued, loopVars, extractVars, tailVars>>

----------------------------------------------------------------------------

Next ==
    \/ Research
    \/ GetAgent
    \/ Search
    \/ ForNext
    \/ WhileHead
    \/ RecordExtract
    \/ Fetch
    \/ Filter
    \/ FindReplacement
    \/ SumHead
    \/ Summarize
    \/ Synthesize
    \/ Save
    \/ AppExcept

Spec == Init /\ [][Next]_vars

\* every call returns or fails in finite time and the server keeps running
FairSpec == Spec /\ WF_vars(Next)

CancelNext ==
    \/ Next
    \/ Close

\* a request whose caller may disconnect at any emitted event
CancelSpec == Init /\ [][CancelNext]_vars

TypeOK ==
    /\ pc \in {"request", "rejected", "get_agent", "search", "for_head",
               "while_head", "fetch", "filter", "find_replacement",
               "after_extract", "sum_head", "summarize", "synth_no_sources",
               "synth_no_extracts", "synth_normal", "save", "app_except",
               "done", "closed"}
    /\ processed_count \in 0..max_results
    /\ it \in 0..max_results
    /\ Len(url_stack) <= RecursionLimit + 1

----------------------------------------------------------------------------
(* Helpers of the properties *)

Last(seq) == seq[Len(seq)]

IsTerminal(e) == e.type \in {"report", "error"}

TerminalEmitted == \E i \in 1..Len(events) : IsTerminal(events[i])

ReportEmitted == \E i \in 1..Len(events) : events[i].type = "report"

ExtractorPcs == {"fetch", "filter", "find_replacement", "after_extract"}

----------------------------------------------------------------------------
(* Properties *)

\* C1: the emitted event sequence of a run has exactly one terminal event
\* (report or error), it is the last event, and every event before it is a
\* progress event; in particular no error event follows a report event.
C1_OneTerminalEventLast ==
    /\ \A i \in 1..(Len(events) - 1) : events[i].type = "progress"
    /\ pc = "done" => (events /= <<>> /\ IsTerminal(Last(events)))

\* C2: every run started with a non-empty query eventually emits its
\* terminal event, whatever the collaborators answer.
C2_RunTerminates == (pc = "get_agent") ~> (pc = "done" /\ TerminalEmitted)

\* C2 witness: the longest chain of replacement retries has been walked and
\* the run has nevertheless ended with its terminal event.
C2_Witness ==
    /\ pc = "done"
    /\ exc = "maximum recursion depth exceeded"
    /\ Last(events).type = "error"

\* C3: for one candidate at most one replacement search is issued and at
\* most two locations (the original and one replacement) are fetched.
C3_AtMostOneReplacement ==
    /\ Len(finder_calls) <= 1
    /\ Len(url_stack) <= 2

\* C4: whenever the extraction of an original candidate has failed, in
\* whatever way (its own try block raised, or a replacement frame exists),
\* the Replacement Finder has been invoked with the original query and the
\* failed location by the time the extractor returns.
C4_EveryFailureSeeksReplacement ==
    (pc = "after_extract" /\ (failure /= "none" \/ Len(url_stack) > 1)) =>
        /\ finder_calls /= <<>>
        /\ finder_calls[1].query = query
        /\ finder_calls[1].failed_url = url_stack[1]

\* C5: an Extraction recorded for a successful replacement carries the
\* provenance string as source and the replacement's relevance-filtered
\* text (a string the Summarizer can take) as content.
C5_ReplacementRecordedAsText ==
    \A i \in 1..Len(extracts) :
        LET e == extracts[i]
        IN  (e.content.nest > 0 /\ e.content.py = "str" /\ e.content.text /= "")
            => /\ \E j \in 1..Len(candidate_urls) :
                    e.url = "Replacement for original: " \o candidate_urls[j]
               /\ e.content = Str(e.content.text)

\* C6: every recorded Extraction holds a non-empty text: nothing is recorded
\* for a candidate whose extraction, its replacement's included, produced no
\* text.
C6_RecordedTextNonEmpty ==
    \A i \in 1..Len(extracts) :
        /\ extracts[i].content.py = "str"
        /\ extracts[i].content.text /= ""

\* C7: once 3 Extractions are recorded the extractor is never active again
\* (no fetch, replacement search or relevance filter can be issued) and the
\* run is at the loop exits or in the summarizing / synthesis / saving part.
C7_StopsAtTarget ==
    Len(extracts) >= target_sources =>
        /\ url_stack = <<>>
        /\ pc \notin ExtractorPcs
        /\ pc \in {"for_head", "while_head", "sum_head", "summarize",
                   "synth_normal", "save", "app_except", "done"}

\* C7 witness: 3 Extractions are recorded, a later candidate was never
\* handed to the extractor, and the run is summarizing.
C7_Witness ==
    /\ Len(extracts) = target_sources
    /\ processed_count < Len(candidate_urls)
    /\ pc = "summarize"

\* C8: when the extractor returns (None, False), only that candidate is
\* dropped: nothing is recorded, no event (so no error event) is emitted, no
\* exception is raised, the count of attempted candidates grows by one, and
\* while the target is not met and candidates remain the next step hands the
\* next candidate in discovery order to the extractor.
C8_FailedCandidateDropped ==
    [][ /\ (pc = "after_extract" /\ result = NoResult) =>
              /\ extracts' = extracts
              /\ events' = events
              /\ exc' = exc
              /\ processed_count' = processed_count + 1
              /\ pc' = "for_head"
        /\ (pc = "for_head" /\ processed_count < Len(candidate_urls)
                            /\ Len(extracts) < target_sources) =>
              /\ pc' = "fetch"
              /\ url_stack' = <<candidate_urls[processed_count + 1]>>
      ]_vars

\* C8 witness: the first candidate was dropped without a trace and the
\* second one is being extracted.
C8_Witness ==
    /\ pc = "fetch"
    /\ processed_count = 1
    /\ extracts = <<>>
    /\ url_stack = <<candidate_urls[2]>>
    /\ ~TerminalEmitted

C10_NoSummariesDegradedPrompt ==
    (synth_calls >= 1 /\ summaries = <<>>) => NotesLimited(overall_prompt)

\* C11: once the agent is available, an error event is emitted only for a
\* failed synthesis call, and a run whose synthesis call succeeded ends in
\* the report event.
C11_ErrorOnlyFromSynthesis ==
    keys_present =>
        /\ \A i \in 1..Len(events) :
               events[i].type = "error"
                   => events[i].message = "generate_content failed"
        /\ (pc = "done" /\ ReportEmitted) => Last(events).type = "report"

\* C12: a request with an empty or missing query only ever gets the
\* 'Missing query' answer: no event is emitted, no external call is issued
\* and nothing is appended to the report store.
C12_EmptyQueryRejected ==
    query = "" =>
        /\ pc \in {"request", "rejected"}
        /\ pc = "rejected" => response = "400 Missing query"
        /\ events = <<>>
        /\ issued = {}
        /\ synth_calls = 0
        /\ append_calls = 0
        /\ store = <<>>

\* C12 witness: the empty query has been answered.
C12_Witness ==
    /\ query = ""
    /\ pc = "rejected"
    /\ response = "400 Missing query"

AttemptMessages == {"Extracting from source", "Trying additional source"}

ExtractedMessages == {"Extracted from", "Extracted from (replacement used)"}

\* the progress events whose message is in msgs, in emission order
EventsOf(msgs) ==
    SelectSeq(events, LAMBDA e : e.type = "progress" /\ e.message \in msgs)

\* C13: every extraction attempt is framed by two progress events: as many
\* 'before' events as attempts started and as many 'after' events as
\* attempts finished, failed ones included.
C13_EventBeforeAndAfterEachAttempt ==
    /\ Len(EventsOf(AttemptMessages))
         = processed_count + (IF pc \in ExtractorPcs THEN 1 ELSE 0)
    /\ Len(EventsOf(ExtractedMessages)) = processed_count

\* C14: the calls and events of a run are strictly ordered: the search comes
\* before any other call; while a candidate is being extracted it is the
\* next one in discovery order, its 'Extracting from' event is the last
\* event emitted and no summarization or synthesis has been issued; an
\* 'Extracted from' event directly follows the 'Extracting from' event of
\* the same candidate; summarizing starts only when no extraction is left
\* and walks the extracts in their order; the normal synthesis call comes
\* after the last summarization.
C14_StrictOrder ==
    /\ issued /= {} => "search" \in issued
    /\ pc \in ExtractorPcs =>
         /\ url_stack[1] = candidate_urls[processed_count + 1]
         /\ Last(events) = Progress("Extracting from source",
                                    Len(extracts) + 1, url_stack[1], <<>>)
         /\ issued \cap {"summarize", "synthesis", "append"} = {}
    /\ \A i \in 1..Len(events) :
         (events[i].type = "progress" /\ events[i].message \in ExtractedMessages)
           => /\ i > 1
              /\ events[i - 1].message = "Extracting from source"
              /\ events[i - 1].url = events[i].url
    /\ ("summarize" \in issued \/ pc \in {"sum_head", "summarize", "synth_normal"})
         => /\ url_stack = <<>>
            /\ pc \notin ExtractorPcs \cup {"for_head", "while_head"}
            /\ (pc = "summarize" => "synthesis" \notin issued)
    /\ LET started == EventsOf({"Summarizing"})
       IN  /\ Len(started) = sum_i
           /\ \A i \in 1..Len(started) : started[i].url = extracts[i].url
    /\ ("synthesis" \in issued /\ overall_prompt.kind = "normal")
         => /\ sum_i = Len(extracts)
            /\ pc \in {"save", "app_except", "done"}

\* C14 witness: a run that extracted, summarized and synthesized is over.
C14_Witness ==
    /\ pc = "done"
    /\ Len(candidate_urls) = max_results
    /\ Len(summaries) = target_sources
    /\ Last(events).type = "report"

\* C15: a run that emitted the report event has made exactly one append by
\* its end and its row is stored, no append is made before the report
\* event, and a run that ends in an error event has made none.
C15_OneAppendAfterReport ==
    /\ append_calls > 0 => ReportEmitted
    /\ (pc = "done" /\ ReportEmitted) => (append_calls = 1 /\ Len(store) = 1)
    /\ (pc = "done" /\ events /= <<>> /\ Last(events).type = "error")
          => append_calls = 0

\* C16: once the event generator has been closed no step issues a call,
\* emits an event or touches the report store, and a run closed before its
\* report event has attempted no append.
C16_NoCallAfterClose ==
    [][ /\ response = "closed" =>
              /\ issued' = issued
              /\ synth_calls' = synth_calls
              /\ append_calls' = append_calls
              /\ store' = store
              /\ events' = events
        /\ (response' = "closed" /\ ~ReportEmitted') => append_calls' = 0
        /\ response' = "closed" => store' = <<>>
      ]_vars

\* C16 witness: the caller left after the first extraction was reported;
\* nothing was synthesized.
C16_Witness ==
    /\ response = "closed"
    /\ pc = "closed"
    /\ Len(extracts) = 1
    /\ "synthesis" \notin issued

\* C17: the normal synthesis prompt embeds exactly the summaries that were
\* kept: one pair per 'Summarized' event, in that order, which is the order
\* of the extracts, each with the source recorded for its extract.
C17_PairsAreKeptSummaries ==
    overall_prompt.kind = "normal" =>
        LET pairs == overall_prompt.pairs
            kept == EventsOf({"Summarized"})
        IN  /\ Len(pairs) = Len(kept)
            /\ Len(pairs) <= target_sources
            /\ \A i \in 1..Len(pairs) :
                  /\ pairs[i].source = kept[i].url
                  /\ pairs[i].summary = summaries[i].summary
                  /\ pairs[i].summary /= ""
            /\ \A i, j \in 1..Len(pairs) :
                  i < j => \E a, b \in 1..Len(extracts) :
                              /\ a < b
                              /\ extracts[a].url = pairs[i].source
                              /\ extracts[b].url = pairs[j].source

\* C17 witness: 5 candidates, the first 2 dropped, the next 3 extracted and
\* summarized: the report was synthesized from exactly those 3 sources.
C17_Witness ==
    /\ pc = "done"
    /\ Len(candidate_urls) = 5
    /\ processed_count = 5
    /\ Len(overall_prompt.pairs) = 3
    /\ \A i \in 1..3 : overall_prompt.pairs[i].source = candidate_urls[i + 2]
    /\ Last(events).type = "report"

\* C18: the extractor is handed at most as many candidates as were
\* discovered (at most 5), each once and in discovery order, whichever loop
\* hands them over, and at most 3 Extractions are recorded.
C18_AttemptsBounded ==
    LET attempts == EventsOf(AttemptMessages)
    IN  /\ Len(candidate_urls) <= max_results
        /\ Len(attempts) <= Len(candidate_urls)
        /\ \A i \in 1..Len(attempts) : attempts[i].url = candidate_urls[i]
        /\ processed_count <= Len(attempts)
        /\ Len(extracts) <= target_sources

\* C18 witness: all 5 candidates were attempted and 3 Extractions recorded.
C18_Witness ==
    /\ Len(candidate_urls) = max_results
    /\ processed_count = max_results
    /\ Len(extracts) = target_sources

\* C20: the text given to the relevance filter has length
\* min(len(text), 50000), in every frame of the extractor.
C20_FilterTextTruncated ==
    [][pc = "filter" => /\ filter_len' = Min(text, MaxChars)
                        /\ filter_len' <= MaxChars]_vars

\* C20 witness: the text of a replacement location was longer than the
\* budget and was cut to it.
C20_Witness ==
    /\ Len(url_stack) = 2
    /\ text = MaxChars + 1
    /\ filter_len = MaxChars

C22_AdditionalLoopNeverRuns ==
    /\ pc = "while_head" =>
          \/ Len(extracts) = target_sources
          \/ processed_count = Len(candidate_urls)
    /\ phase /= "additional"
    /\ EventsOf({"Trying additional source"}) = <<>>

\* C22 witness: all 5 candidates were attempted, only 2 Extractions were
\* recorded, and the test of the additional loop is reached.
C22_Witness ==
    /\ pc = "while_head"
    /\ Len(candidate_urls) = max_results
    /\ processed_count = max_results
    /\ Len(extracts) = 2

StreamEvents == SelectSeq(events, LAMBDA e : e.type /= "error")

\* the exception that left generate_report_stream, "none" if none did
StreamRaised ==
    IF exc \in {"generate_content failed", "maximum recursion depth exceeded"}
      THEN exc
      ELSE "none"

\* generate_report_stream was started and has returned or raised
StreamOver == keys_present /\ pc \in {"save", "app_except", "done"}

RECURSIVE generate_report(_, _)
\* lines 243-248: the first 'report' event's text is returned; an exception
\* of the stream passes through; an exhausted stream raises the fallback
generate_report(stream, raised) ==
    IF stream = <<>>
      THEN [kind |-> "raise",
            value |-> IF raised /= "none" THEN raised
                      ELSE "Failed to generate report"]
      ELSE IF Head(stream).type = "report"
             THEN [kind |-> "return", value |-> Head(stream).message]
             ELSE generate_report(Tail(stream), raised)

\* C24: generate_report returns the text of the stream's 'report' event,
\* raises exactly when the stream raised, which is when the synthesis call
\* failed, and never raises the fallback 'Failed to generate report'.
C24_GenerateReportMatchesStream ==
    StreamOver =>
        LET out == generate_report(StreamEvents, StreamRaised)
        IN  /\ ReportEmitted =>
                  /\ out.kind = "return"
                  /\ out.value = Last(StreamEvents).message
            /\ out.kind = "raise" <=> StreamRaised /= "none"
            /\ out.kind = "raise" => out.value = "generate_content failed"
            /\ out.kind = "raise" => "synthesis" \in issued

====
